---- MODULE Spec2Model ----
(***************************************************************************)
(* Model of the img-src.io MCP server's boundary layer: the URL guard      *)
(* (isAllowedUrl), the path sanitizer (sanitizePath) and the upload_image  *)
(* tool handler of both server generations.                                *)
(*                                                                         *)
(* JavaScript strings are TLA+ strings; TLC evaluates Len, \o, SubSeq,     *)
(* Head and Tail on them, so a character is a string of length one.        *)
(* The string functions are recursive functions on STRING, and a local     *)
(* value that is read several times is bound with Bind: TLC then computes  *)
(* it once.                                                                *)
(***************************************************************************)
EXTENDS Integers, Sequences, FiniteSets, TLC

VARIABLES
    urlArg,       \* isAllowedUrl: the argument of the call
    urlPc,        \* isAllowedUrl: "called" until the call returns, then "returned"
    urlParsed,    \* isAllowedUrl: its local parsed, Failure when new URL threw
    verdict,      \* isAllowedUrl: what the call returned
    pathArg,      \* sanitizePath: the argument of the last call
    pathResult,   \* sanitizePath: what the last call returned
    pathFedBack,  \* sanitizePath: the argument was the result of the call before
    gen,          \* upload_image: the server generation, "Server" or "McpServer"
    apiKey,       \* upload_image: API_KEY, "" when IMG_SRC_API_KEY is not set
    args,         \* upload_image: the arguments of the tool call
    pc,           \* upload_image: the await the handler is suspended at
    imgTimer,     \* upload_image: the timer of the image fetch
    apiTimer,     \* apiRequest: the timer of the API request
    response,     \* apiRequest: the HTTP status of the response, 0 before it
    fetchSettled, \* apiRequest: how await fetch settled, "" before it
    bodySettled,  \* apiRequest: how await response.json() settled, "" before it
    apiResult,    \* apiRequest: what the call returned
    netCalls,     \* the requests that fetch has put on the network, in order
    toolResult,   \* upload_image: what the handler returned
    callToolResult, \* upload_image: the CallToolResult made of it
    imageSize,    \* upload_image: the bytes of the image the handler holds, 0 before
    config,       \* concurrent calls: API_URL and API_KEY of the process
    calls,        \* concurrent calls: the state of each call of apiRequest
    cdnArgs,      \* get_cdn_url: the arguments of the call
    cdnResult     \* get_cdn_url: what handleGetCdnUrl returned

urlVars == <<urlArg, urlPc, urlParsed, verdict>>
pathVars == <<pathArg, pathResult, pathFedBack>>
\* what no step of upload_image changes
fixed ==
    <<urlArg, urlPc, urlParsed, verdict, pathArg, pathResult, pathFedBack, gen, apiKey, args,
      config, calls, cdnArgs, cdnResult>>
\* what apiRequest has seen and returned
apiState == <<response, fetchSettled, bodySettled, apiResult>>
uploadVars ==
    <<gen, apiKey, args, pc, imgTimer, apiTimer, response, fetchSettled, bodySettled,
      apiResult, netCalls, toolResult, callToolResult, imageSize>>
callVars == <<config, calls>>
cdnVars == <<cdnArgs, cdnResult>>
vars == <<urlVars, pathVars, uploadVars, callVars, cdnVars>>

\* F(v), with v computed once
Bind(v, F(_)) == CHOOSE r \in {F(x) : x \in {v}} : TRUE

(***************************************************************************)
(* String primitives (ECMAScript String.prototype)                         *)
(***************************************************************************)

CharAt(s, i) == SubSeq(s, i, i)

Chars(s) == {CharAt(s, i) : i \in 1..Len(s)}

DecDigits == "0123456789"
HexDigits == "0123456789abcdef"
UpperAlpha == "ABCDEFGHIJKLMNOPQRSTUVWXYZ"
LowerAlpha == "abcdefghijklmnopqrstuvwxyz"

\* s.indexOf(c, i) for a one-character c, 1-based; 0 when c does not occur
IndexOfFrom[s \in STRING, c \in STRING, i \in Nat] ==
    IF i > Len(s) THEN 0
    ELSE IF CharAt(s, i) = c THEN i
    ELSE IndexOfFrom[s, c, i + 1]

IndexOf(s, c) == IndexOfFrom[s, c, 1]

\* s.includes(c) for a one-character c
Includes(s, c) == IndexOf(s, c) # 0

\* index of the first character of s, from i on, that lies in the set cs
IndexOfAny[s \in STRING, cs \in SUBSET STRING, i \in Nat] ==
    IF i > Len(s) THEN 0
    ELSE IF CharAt(s, i) \in cs THEN i
    ELSE IndexOfAny[s, cs, i + 1]

\* s.lastIndexOf(c, i)
LastIndexOfFrom[s \in STRING, c \in STRING, i \in Nat] ==
    IF i < 1 THEN 0
    ELSE IF CharAt(s, i) = c THEN i
    ELSE LastIndexOfFrom[s, c, i - 1]

LastIndexOf(s, c) == LastIndexOfFrom[s, c, Len(s)]

IsDigit(c) == Includes(DecDigits, c)
IsHexDigit(c) == Includes(HexDigits, c) \/ Includes("ABCDEF", c)
IsAlpha(c) == Includes(UpperAlpha, c) \/ Includes(LowerAlpha, c)

AllDigits(s) == \A i \in 1..Len(s) : IsDigit(CharAt(s, i))
AllHexDigits(s) == \A i \in 1..Len(s) : IsHexDigit(CharAt(s, i))
AllOctDigits(s) == \A i \in 1..Len(s) : Includes("01234567", CharAt(s, i))

LowerChar(c) ==
    LET k == IndexOf(UpperAlpha, c) IN IF k = 0 THEN c ELSE CharAt(LowerAlpha, k)

\* String.prototype.toLowerCase (ASCII)
toLowerCase[s \in STRING] ==
    IF s = "" THEN "" ELSE LowerChar(Head(s)) \o toLowerCase[Tail(s)]

\* s.split(c) for a one-character separator c
SplitOn[s \in STRING, c \in STRING] ==
    LET i == IndexOf(s, c) IN
    IF i = 0 THEN <<s>>
    ELSE <<SubSeq(s, 1, i - 1)>> \o SplitOn[SubSeq(s, i + 1, Len(s)), c]

\* parts.join(sep)
Join[parts \in Seq(STRING), sep \in STRING] ==
    IF parts = <<>> THEN ""
    ELSE IF Len(parts) = 1 THEN parts[1]
    ELSE parts[1] \o sep \o Join[Tail(parts), sep]

DigitVal(c) == IndexOf(HexDigits, LowerChar(c)) - 1

\* the value of a digit string in the given radix
ParseRadix[s \in STRING, radix \in Nat] ==
    IF s = "" THEN 0
    ELSE ParseRadix[SubSeq(s, 1, Len(s) - 1), radix] * radix + DigitVal(CharAt(s, Len(s)))

\* Number(s) for a string of decimal digits (leading zeros are ignored)
Number(s) == ParseRadix[s, 10]

\* n.toString(16)
ToHex[n \in Nat] ==
    IF n < 16 THEN CharAt(HexDigits, n + 1)
    ELSE ToHex[n \div 16] \o CharAt(HexDigits, (n % 16) + 1)

(***************************************************************************)
(* new URL(urlString): the WHATWG URL parser, as far as isAllowedUrl reads *)
(* its result (protocol, hostname).  A failure is the TypeError it throws. *)
(***************************************************************************)

SpecialSchemes == {"http", "https", "ftp", "ws", "wss"}

\* code points the host parser refuses in a domain ("%" stands for the
\* percent-encoded hosts, which the inputs do not contain)
ForbiddenHostChars == {" ", "#", "/", ":", "<", ">", "?", "@", "[", "\\", "]", "^", "|", "%"}

Failure == [ok |-> FALSE]

\* bytes * radix + carry, on a number held as its base-256 digits, lowest first
\* (an IPv4 number may exceed the model checker's integers)
MulAdd[bytes \in Seq(Nat), radix \in Nat, carry \in Nat] ==
    IF bytes = <<>>
    THEN (IF carry = 0 THEN <<>> ELSE <<carry % 256>> \o MulAdd[<<>>, radix, carry \div 256])
    ELSE <<(bytes[1] * radix + carry) % 256>>
         \o MulAdd[Tail(bytes), radix, (bytes[1] * radix + carry) \div 256]

ParseBytes[s \in STRING, radix \in Nat] ==
    IF s = "" THEN <<>>
    ELSE MulAdd[ParseBytes[SubSeq(s, 1, Len(s) - 1), radix], radix, DigitVal(CharAt(s, Len(s)))]

\* IPv4 number parser: one dot-separated part, read as hex (0x), octal (leading 0)
\* or decimal; the value as base-256 digits
ParseIPv4Number[part \in STRING] ==
    LET isHex == Len(part) >= 2 /\ toLowerCase[SubSeq(part, 1, 2)] = "0x"
        isOct == ~isHex /\ Len(part) >= 2 /\ Head(part) = "0"
        digits == IF isHex THEN SubSeq(part, 3, Len(part))
                  ELSE IF isOct THEN Tail(part) ELSE part
    IN  IF part = "" THEN Failure
        ELSE IF isHex
             THEN IF AllHexDigits(digits)
                  THEN [ok |-> TRUE, value |-> ParseBytes[digits, 16]] ELSE Failure
        ELSE IF isOct
             THEN IF AllOctDigits(digits)
                  THEN [ok |-> TRUE, value |-> ParseBytes[digits, 8]] ELSE Failure
        ELSE IF AllDigits(digits)
             THEN [ok |-> TRUE, value |-> ParseBytes[digits, 10]] ELSE Failure

\* the parts of a host without a single trailing empty part
DropTrailingEmpty[parts \in Seq(STRING)] ==
    IF Len(parts) > 1 /\ parts[Len(parts)] = "" THEN SubSeq(parts, 1, Len(parts) - 1)
    ELSE parts

\* the dot-separated parts of a host, a single trailing empty part removed
HostParts[host \in STRING] == DropTrailingEmpty[SplitOn[host, "."]]

\* whether a part is all digits, or reads as an IPv4 number
IsNumberPart[last \in STRING] ==
    /\ last # ""
    /\ \/ AllDigits(last)
       \/ ParseIPv4Number[last].ok

\* "ends in a number": so is the last part of the host
EndsInNumber[host \in STRING] ==
    Bind(HostParts[host], LAMBDA parts : IsNumberPart[parts[Len(parts)]])

\* the octets of parsed IPv4 numbers, or failure.  Every part but the last is
\* at most 255; the last fills the remaining octets.
OctetsOf(nums) ==
    LET n == Len(nums)
        byte(v, k) == IF k <= Len(v) THEN v[k] ELSE 0
        octet(i) == IF i < n THEN byte(nums[i].value, 1) ELSE byte(nums[n].value, 5 - i)
    IN  IF n > 4 THEN Failure
        ELSE IF \E i \in 1..n : ~nums[i].ok THEN Failure
        ELSE IF \E i \in 1..(n - 1) : Len(nums[i].value) > 1 THEN Failure
        ELSE IF Len(nums[n].value) > 5 - n THEN Failure
        ELSE [ok |-> TRUE, octets |-> <<octet(1), octet(2), octet(3), octet(4)>>]

ParseIPv4Parts[parts \in Seq(STRING)] ==
    Bind([i \in 1..Len(parts) |-> ParseIPv4Number[parts[i]]], OctetsOf)

\* IPv4 parser: the four octets of the address, or failure
ParseIPv4[host \in STRING] == ParseIPv4Parts[HostParts[host]]

\* IPv4 serializer: dotted decimal
SerializeIPv4(o) ==
    ToString(o[1]) \o "." \o ToString(o[2]) \o "." \o ToString(o[3]) \o "." \o ToString(o[4])

\* one piece of an IPv6 literal: 1 to 4 hex digits
IsIPv6Piece(p) == Len(p) >= 1 /\ Len(p) <= 4 /\ AllHexDigits(p)

\* four decimal parts 0..255 with no leading zero
IsDecimalQuad(parts) ==
    /\ Len(parts) = 4
    /\ \A i \in 1..4 :
          /\ parts[i] # "" /\ Len(parts[i]) <= 3 /\ AllDigits(parts[i])
          /\ (Len(parts[i]) > 1 => Head(parts[i]) # "0")
          /\ Number(parts[i]) <= 255

\* the dotted-decimal tail of an IPv6 literal
IsIPv6Tail(p) == Bind(SplitOn[p, "."], IsDecimalQuad)

\* the two 16-bit pieces a dotted-decimal tail stands for
TailPieces(o) ==
    <<Number(o[1]) * 256 + Number(o[2]), Number(o[3]) * 256 + Number(o[4])>>

\* the 16-bit pieces a colon-separated run of an IPv6 literal stands for
IPv6Pieces[ps \in Seq(STRING)] ==
    IF ps = <<>> THEN <<>>
    ELSE IF Includes(ps[1], ".")
         THEN Bind(SplitOn[ps[1], "."], TailPieces) \o IPv6Pieces[Tail(ps)]
    ELSE <<ParseRadix[ps[1], 16]>> \o IPv6Pieces[Tail(ps)]

\* index of the first "::" of s from i on, or 0
IndexOfDoubleColon[s \in STRING, i \in Nat] ==
    IF i + 1 > Len(s) THEN 0
    ELSE IF SubSeq(s, i, i + 1) = "::" THEN i
    ELSE IndexOfDoubleColon[s, i + 1]

\* the colon-separated pieces of one side of "::"
ColonParts[side \in STRING] == IF side = "" THEN <<>> ELSE SplitOn[side, ":"]

\* every piece is hex, but the last may be a dotted-decimal tail
WellFormedPieces(all) ==
    \A i \in 1..Len(all) :
        \/ IsIPv6Piece(all[i])
        \/ i = Len(all) /\ IsIPv6Tail(all[i])

\* the eight pieces from the pieces left and right of "::" (compressed), or
\* from the pieces of a literal without "::"
ExpandPieces[lp \in Seq(STRING), rp \in Seq(STRING), compressed \in BOOLEAN] ==
    IF ~WellFormedPieces(lp \o rp) THEN Failure
    ELSE Bind(IPv6Pieces[lp \o rp], LAMBDA ps :
            IF ~compressed
            THEN (IF Len(ps) = 8 THEN [ok |-> TRUE, pieces |-> ps] ELSE Failure)
            ELSE IF Len(ps) > 7 THEN Failure
            ELSE Bind(Len(IPv6Pieces[lp]), LAMBDA nl :
                    [ok |-> TRUE,
                     pieces |-> SubSeq(ps, 1, nl) \o [i \in 1..(8 - Len(ps)) |-> 0]
                                \o SubSeq(ps, nl + 1, Len(ps))]))

\* IPv6 parser: the eight pieces of the address, or failure
ParseIPv6[s \in STRING] ==
    LET dbl == IndexOfDoubleColon[s, 1] IN
    IF dbl = 0 THEN ExpandPieces[ColonParts[s], <<>>, FALSE]
    ELSE ExpandPieces[ColonParts[SubSeq(s, 1, dbl - 1)],
                      ColonParts[SubSeq(s, dbl + 2, Len(s))], TRUE]

\* the length of the run of zero pieces that starts at piece i
ZeroRun[p \in Seq(Nat), i \in Nat] ==
    IF i > 8 \/ p[i] # 0 THEN 0 ELSE 1 + ZeroRun[p, i + 1]

SerializeIPv6From[p \in Seq(Nat), i \in Nat, compress \in Nat] ==
    IF i > 8 THEN ""
    ELSE IF i = compress
         THEN (IF i = 1 THEN "::" ELSE ":")
              \o SerializeIPv6From[p, i + ZeroRun[p, i], compress]
    ELSE ToHex[p[i]] \o (IF i # 8 THEN ":" ELSE "") \o SerializeIPv6From[p, i + 1, compress]

\* the length of the longest run of zero pieces
LongestZeroRun[p \in Seq(Nat)] ==
    CHOOSE n \in 0..8 :
        /\ \E i \in 1..8 : ZeroRun[p, i] = n
        /\ \A i \in 1..8 : ZeroRun[p, i] <= n

\* the piece where the first longest run of two or more zero pieces starts, or 0
CompressAt[p \in Seq(Nat)] ==
    Bind(LongestZeroRun[p], LAMBDA longest :
        IF longest < 2 THEN 0
        ELSE CHOOSE i \in 1..8 :
                /\ ZeroRun[p, i] = longest
                /\ \A j \in 1..(i - 1) : ZeroRun[p, j] < longest)

\* IPv6 serializer: lower-case hex, the first longest run of zero pieces
\* compressed to "::"
SerializeIPv6[p \in Seq(Nat)] == SerializeIPv6From[p, 1, CompressAt[p]]

\* host parser, the host not in brackets: an IPv4 address or a domain
ParseDomain[domain \in STRING] ==
    IF Chars(domain) \cap ForbiddenHostChars # {} THEN Failure
    ELSE IF EndsInNumber[domain]
         THEN Bind(ParseIPv4[domain], LAMBDA v4 :
                 IF v4.ok THEN [ok |-> TRUE, host |-> SerializeIPv4(v4.octets)] ELSE Failure)
    ELSE [ok |-> TRUE, host |-> domain]

\* host parser of a special scheme: the serialized host, or failure
ParseHost[input \in STRING] ==
    IF input = "" THEN Failure
    ELSE IF Head(input) = "["
         THEN IF CharAt(input, Len(input)) # "]" THEN Failure
              ELSE Bind(ParseIPv6[SubSeq(input, 2, Len(input) - 1)], LAMBDA v6 :
                      IF v6.ok THEN [ok |-> TRUE, host |-> "[" \o SerializeIPv6[v6.pieces] \o "]"]
                      ELSE Failure)
    ELSE ParseDomain[toLowerCase[input]]

\* the scheme of a URL string: a letter, then letters, digits, "+", "-", "."
IsScheme(s) ==
    /\ s # ""
    /\ IsAlpha(Head(s))
    /\ \A i \in 2..Len(s) :
          IsAlpha(CharAt(s, i)) \/ IsDigit(CharAt(s, i)) \/ CharAt(s, i) \in {"+", "-", "."}

\* s without its leading run of "/" and "\"
SkipSlashes[s \in STRING] ==
    IF s # "" /\ Head(s) \in {"/", "\\"} THEN SkipSlashes[Tail(s)] ELSE s

\* s up to, and without, its first character in cs from i on
UpTo[s \in STRING, cs \in SUBSET STRING, i \in Nat] ==
    LET stop == IndexOfAny[s, cs, i] IN
    IF stop = 0 THEN SubSeq(s, i, Len(s)) ELSE SubSeq(s, i, stop - 1)

\* "host:port": the host as written, when the port is a number up to 65535
SplitHostPort[hostport \in STRING] ==
    LET close == IndexOf(hostport, "]")
        colon == IF hostport # "" /\ Head(hostport) = "["
                 THEN (IF close = 0 THEN 0 ELSE IndexOfFrom[hostport, ":", close])
                 ELSE IndexOf(hostport, ":")
        host == IF colon = 0 THEN hostport ELSE SubSeq(hostport, 1, colon - 1)
        port == IF colon = 0 THEN "" ELSE SubSeq(hostport, colon + 1, Len(hostport))
    IN  IF AllDigits(port) /\ Len(port) <= 5 /\ Number(port) <= 65535
        THEN [ok |-> TRUE, host |-> host] ELSE Failure

\* authority, "userinfo@host:port": the host as written
ParseAuthority[auth \in STRING] ==
    SplitHostPort[SubSeq(auth, LastIndexOf(auth, "@") + 1, Len(auth))]

\* the host of a special URL from what follows "scheme:"
SpecialHost[rest \in STRING] ==
    Bind(ParseAuthority[UpTo[SkipSlashes[rest], {"/", "\\", "?", "#"}, 1]], LAMBDA written :
        IF written.ok THEN ParseHost[written.host] ELSE Failure)

\* the host of any other URL from what follows "scheme:": an opaque host,
\* kept as written
OpaqueHost[rest \in STRING] ==
    IF Len(rest) >= 2 /\ SubSeq(rest, 1, 2) = "//"
    THEN ParseAuthority[UpTo[rest, {"/", "?", "#"}, 3]]
    ELSE [ok |-> TRUE, host |-> ""]

\* new URL(urlString) with no base: [ok, protocol, hostname], ok = FALSE when it throws
newURL[urlString \in STRING] ==
    LET colon == IndexOf(urlString, ":")
        scheme == toLowerCase[SubSeq(urlString, 1, colon - 1)]
        rest == SubSeq(urlString, colon + 1, Len(urlString))
    IN  IF colon = 0 THEN Failure
        ELSE IF ~IsScheme(SubSeq(urlString, 1, colon - 1)) THEN Failure
        ELSE IF scheme \in SpecialSchemes
             THEN Bind(SpecialHost[rest], LAMBDA authority :
                     IF authority.ok
                     THEN [ok |-> TRUE, protocol |-> scheme \o ":", hostname |-> authority.host]
                     ELSE Failure)
        ELSE Bind(OpaqueHost[rest], LAMBDA authority :
                IF authority.ok
                THEN [ok |-> TRUE, protocol |-> scheme \o ":", hostname |-> authority.host]
                ELSE Failure)

(***************************************************************************)
(* isAllowedUrl: the SSRF guard of the McpServer generation                *)
(***************************************************************************)

NoReason == "undefined"

localhostPatterns == {"localhost", "127.0.0.1", "0.0.0.0", "::1", "[::1]"}

metadataEndpoints == {"169.254.169.254", "metadata.google.internal", "metadata.goog"}

\* whether the parts are four groups of one to three digits
IsDigitQuad(parts) ==
    /\ Len(parts) = 4
    /\ \A i \in 1..4 : Len(parts[i]) >= 1 /\ Len(parts[i]) <= 3 /\ AllDigits(parts[i])

\* the pattern without its end anchor "$": the first four groups of a longer
\* name match
ipv4MatchUnanchored(hostname) ==
    Bind(SplitOn[hostname, "."], LAMBDA parts :
        IF Len(parts) >= 4 /\ IsDigitQuad(SubSeq(parts, 1, 4)) THEN SubSeq(parts, 1, 4)
        ELSE <<>>)

\* /^(\d{1,3})\.(\d{1,3})\.(\d{1,3})\.(\d{1,3})$/.exec(hostname): the four
\* groups, or <<>> for null
ipv4Match(hostname) ==
    Bind(SplitOn[hostname, "."], LAMBDA parts : IF IsDigitQuad(parts) THEN parts ELSE <<>>)

\* the range test with 172.16.0.0/12 beginning above 16
PrivateRangeReasonAbove16(a, b) ==
    IF a = 10 THEN "Private network URLs are not allowed"
    ELSE IF a = 172 /\ b > 16 /\ b <= 31 THEN "Private network URLs are not allowed"
    ELSE IF a = 192 /\ b = 168 THEN "Private network URLs are not allowed"
    ELSE IF a = 169 /\ b = 254 THEN "Link-local URLs are not allowed"
    ELSE NoReason

\* the range test on the first two octets: the reason to refuse, if any
PrivateRangeReason(a, b) ==
    IF a = 10 THEN "Private network URLs are not allowed"
    ELSE IF a = 172 /\ b >= 16 /\ b <= 31 THEN "Private network URLs are not allowed"
    ELSE IF a = 192 /\ b = 168 THEN "Private network URLs are not allowed"
    ELSE IF a = 169 /\ b = 254 THEN "Link-local URLs are not allowed"
    ELSE NoReason

\* the range test on the match of the dotted-decimal pattern
RangeVerdict(m) ==
    IF m = <<>> THEN [allowed |-> TRUE, reason |-> NoReason]
    ELSE Bind(PrivateRangeReason(Number(m[1]), Number(m[2])), LAMBDA r :
            [allowed |-> r = NoReason, reason |-> r])

\* the guard from the lower-cased hostname on, without the metadata endpoints
CheckHostnameNoMetadata(hostname) ==
    IF hostname \in localhostPatterns
    THEN [allowed |-> FALSE, reason |-> "Localhost URLs are not allowed"]
    ELSE Bind(ipv4Match(hostname), RangeVerdict)

\* the guard from the lower-cased hostname on
CheckHostname(hostname) ==
    IF hostname \in localhostPatterns
    THEN [allowed |-> FALSE, reason |-> "Localhost URLs are not allowed"]
    ELSE IF hostname \in metadataEndpoints
    THEN [allowed |-> FALSE, reason |-> "Cloud metadata endpoints are not allowed"]
    ELSE Bind(ipv4Match(hostname), RangeVerdict)

\* the guard from the parsed URL on, with a protocol test that lets ftp: pass
CheckParsedFtp(parsed) ==
    IF parsed.protocol \notin {"http:", "https:", "ftp:"}
    THEN [allowed |-> FALSE,
          reason |-> "Protocol '" \o parsed.protocol \o "' is not allowed"]
    ELSE Bind(toLowerCase[parsed.hostname], CheckHostname)

\* the guard from the parsed URL on
CheckParsed(parsed) ==
    IF parsed.protocol # "http:" /\ parsed.protocol # "https:"
    THEN [allowed |-> FALSE,
          reason |-> "Protocol '" \o parsed.protocol \o "' is not allowed"]
    ELSE Bind(toLowerCase[parsed.hostname], CheckHostname)

isAllowedUrl(urlString) ==
    Bind(newURL[urlString], LAMBDA parsed :
        IF ~parsed.ok THEN [allowed |-> FALSE, reason |-> "Invalid URL format"]
        ELSE CheckParsed(parsed))

(***************************************************************************)
(* sanitizePath                                                            *)
(***************************************************************************)

\* the printable ASCII characters from code 32 to 95, and from 97 to 126
AsciiLow == " !\"#$%&'()*+,-./0123456789:;<=>?@ABCDEFGHIJKLMNOPQRSTUVWXYZ[\\]^_"
AsciiHigh == "abcdefghijklmnopqrstuvwxyz{|}~"

\* String.fromCharCode(n) for a printable ASCII code point
CharOfCode(n) == IF n < 96 THEN CharAt(AsciiLow, n - 31) ELSE CharAt(AsciiHigh, n - 96)

URIError == [ok |-> FALSE]

\* decodeURIComponent(s): every %XX escape replaced by the character it encodes.
\* It throws URIError on "%" not followed by two hex digits and on an escape
\* that is no valid UTF-8: here every escape of a byte above 127, the model's
\* strings being ASCII (a multi-byte sequence does not occur in the inputs).
decodeURIComponent[s \in STRING] ==
    IF s = "" THEN [ok |-> TRUE, value |-> ""]
    ELSE IF Head(s) # "%"
         THEN Bind(decodeURIComponent[Tail(s)], LAMBDA rest :
                 IF rest.ok THEN [ok |-> TRUE, value |-> Head(s) \o rest.value] ELSE URIError)
    ELSE IF Len(s) < 3 \/ ~AllHexDigits(SubSeq(s, 2, 3)) THEN URIError
    ELSE IF ParseRadix[SubSeq(s, 2, 3), 16] > 127 THEN URIError
    ELSE Bind(decodeURIComponent[SubSeq(s, 4, Len(s))], LAMBDA rest :
            IF rest.ok
            THEN [ok |-> TRUE,
                  value |-> CharOfCode(ParseRadix[SubSeq(s, 2, 3), 16]) \o rest.value]
            ELSE URIError)

PathSeparators == {"/", "\\"}

\* the index of the last character of the run of separators that starts at i
RunEnd[s \in STRING, i \in Nat] ==
    IF i < Len(s) /\ CharAt(s, i + 1) \in PathSeparators THEN RunEnd[s, i + 1] ELSE i

\* s.split(/[/\\]+/): the pieces between the runs of separators, the empty
\* pieces before a leading run and after a trailing run included
SplitOnSeparators[s \in STRING] ==
    LET i == IndexOfAny[s, PathSeparators, 1] IN
    IF i = 0 THEN <<s>>
    ELSE <<SubSeq(s, 1, i - 1)>> \o SplitOnSeparators[SubSeq(s, RunEnd[s, i] + 1, Len(s))]

\* a filter callback that keeps the segment "."
KeepSegmentDot(segment) == segment # ".." /\ segment # ""

\* the filter callback: the segments that are kept
KeepSegment(segment) == segment # ".." /\ segment # "." /\ segment # ""

\* a catch that gives up the path: "" when decodeURIComponent throws
DecodeOrEmpty(path) ==
    Bind(decodeURIComponent[path], LAMBDA d : IF d.ok THEN d.value ELSE "")

\* the input without the decoding step
KeepUndecoded(path) == path

\* the try/catch around decodeURIComponent: the input itself when it throws
DecodeOrKeep(path) ==
    Bind(decodeURIComponent[path], LAMBDA d : IF d.ok THEN d.value ELSE path)

\* sanitizePath of the McpServer generation
sanitizePath(path) ==
    Join[SelectSeq(SplitOnSeparators[DecodeOrKeep(path)], KeepSegment), "/"]

\* s.replace(/pat/g, "") for a literal pat: every occurrence removed in one
\* pass from left to right
RemoveAll[s \in STRING, pat \in STRING] ==
    IF s = "" THEN ""
    ELSE IF Len(s) >= Len(pat) /\ SubSeq(s, 1, Len(pat)) = pat
         THEN RemoveAll[SubSeq(s, Len(pat) + 1, Len(s)), pat]
    ELSE Head(s) \o RemoveAll[Tail(s), pat]

\* s.replace(/^\/+/, "")
StripLeadingSlashes[s \in STRING] ==
    IF s # "" /\ Head(s) = "/" THEN StripLeadingSlashes[Tail(s)] ELSE s

\* sanitizePath of the Server generation
sanitizePathServer(path) ==
    StripLeadingSlashes[RemoveAll[RemoveAll[DecodeOrKeep(path), "../"], "..\\"]]

(***************************************************************************)
(* Calls of the two pure functions, over bounded sets of arguments         *)
(***************************************************************************)

NoVerdict == [allowed |-> FALSE, reason |-> "<pending>"]
NoPath == "<none>"

\* the last two octets of a generated dotted-decimal host range over 0..MaxOctet
MaxOctet == 1
\* a path argument is the concatenation of at most MaxTokens tokens
MaxTokens == 3

UrlSchemes == {"http://", "https://", "HTTP://", "ftp://", "file://", "gopher://", "myapp://"}
UrlPorts == {"", ":8080"}
UrlPaths == {"", "/", "/latest/meta-data/?x=1#y"}

NamedHosts ==
    {"localhost", "LOCALHOST", "LocalHost", "localhost.", "notlocalhost",
     "localhost.example.com", "metadata.google.internal", "Metadata.Google.Internal",
     "metadata.goog", "METADATA.GOOG", "example.com", "cdn.example.org",
     "images.unsplash.com", "123.example.com", "1password.com", "10.example.com",
     "10.0.0.1.example.com", "192.168.example.com", "0x7f.example.com",
     "0177.example.com", "user@10.0.0.1", "exa mple.com"}

Ipv6Hosts ==
    {"[::1]", "::1", "[0:0:0:0:0:0:0:1]", "[::ffff:127.0.0.1]", "[::ffff:10.0.0.1]",
     "[::ffff:169.254.169.254]", "[::ffff:192.168.1.1]", "[::FFFF:7F00:1]",
     "[2001:db8::1]", "[::1", "[1:2:3:4:5:6:7:8:9]"}

NumericHosts ==
    {"127.0.0.1", "127.0.0.2", "0.0.0.0", "169.254.169.254", "8.8.8.8", "1.2.3",
     "999.1.1.1", "10.0.0.256", "172.16.0.1.", "0177.0.0.1", "0177.0.0.2", "00.0.0.0",
     "012.0.0.1", "0x7f.0.0.1", "0X7F.1", "0x7f000001", "0xA9FEA9FE", "0x08080808",
     "2130706433", "134744072", "4294967296", "0300.0250.1.1", "1.2.3.4.5"}

\* first and second octets on, next to and away from the boundaries of the
\* private and link-local ranges
FirstOctets == {9, 10, 11, 168, 169, 170, 171, 172, 173, 191, 192, 193}
SecondOctets == {0, 15, 16, 17, 30, 31, 32, 167, 168, 169, 253, 254, 255}

DottedHosts ==
    {ToString(a) \o "." \o ToString(b) \o "." \o ToString(c) \o "." \o ToString(d) :
        a \in FirstOctets, b \in SecondOctets, c \in 0..MaxOctet, d \in 0..MaxOctet}

MalformedUrls ==
    {"", "not-a-url", "://missing-protocol", "http://", "//example.com/x",
     "1http://example.com/", "http:/example.com", "http:example.com"}

UrlInputs ==
    {s \o h \o p \o q :
        s \in UrlSchemes, h \in NamedHosts \cup Ipv6Hosts \cup NumericHosts,
        p \in UrlPorts, q \in UrlPaths}
    \cup {s \o h \o "/" : s \in {"http://", "https://"}, h \in DottedHosts}
    \cup MalformedUrls

PathTokens == {".", "..", "/", "\\", "a", "%2e", "%2f", "%5c", "%25", "2e", "%"}

PathsOfLength[n \in Nat] ==
    IF n = 0 THEN {""} ELSE {t \o rest : t \in PathTokens, rest \in PathsOfLength[n - 1]}

PathInputs == UNION {PathsOfLength[n] : n \in 0..MaxTokens}

(***************************************************************************)
(* upload_image: handleUploadImage and apiRequest of both generations      *)
(***************************************************************************)

API_URL == "https://api.img-src.io"
MAX_IMAGE_SIZE == 5 * 1024 * 1024

IMAGE_MIME_TYPES ==
    {".jpg", ".jpeg", ".png", ".gif", ".webp", ".avif", ".bmp", ".tiff", ".tif",
     ".ico", ".svg", ".heic", ".heif"}

\* path.basename(filePath)
basename(filePath) ==
    SubSeq(filePath, LastIndexOf(filePath, "/") + 1, Len(filePath))

\* path.extname(filePath): from the last "." of the base name on, "" when
\* there is none, the base name begins with it, or the base name is ".."
extname(filePath) ==
    LET base == basename(filePath)
        dot == LastIndexOf(base, ".")
    IN  IF dot <= 1 \/ base = ".." THEN "" ELSE SubSeq(base, dot, Len(base))

isAllowedImagePath(filePath) ==
    LET ext == toLowerCase[extname(filePath)] IN
    IF ext = "" THEN [allowed |-> FALSE, reason |-> "File has no extension"]
    ELSE IF ext \notin IMAGE_MIME_TYPES
    THEN [allowed |-> FALSE,
          reason |-> "Extension '" \o ext \o "' is not a supported image format"]
    ELSE [allowed |-> TRUE, reason |-> NoReason]

\* whether fetch(url) puts a request on the network: it rejects, without one,
\* a URL that does not parse and a scheme it does not implement
FetchSends(url) ==
    Bind(newURL[url], LAMBDA parsed : parsed.ok /\ parsed.protocol \in {"http:", "https:"})

NoResult == [kind |-> "none", code |-> ""]
Success == [kind |-> "success", code |-> ""]
ErrorResult(code) == [kind |-> "error", code |-> code]

\* an exception that leaves handleUploadImage: the Server generation's
\* dispatcher catches it, the McpServer generation's callback rejects
Thrown == IF gen = "Server" THEN ErrorResult("INTERNAL_ERROR") ELSE [kind |-> "thrown", code |-> ""]

\* the top-level keys of the JSON text a handler returns: { error: ... } or
\* { success, image, message }
JsonKeys(result) ==
    IF result.kind = "error" THEN {"error"} ELSE {"success", "image", "message"}

\* the tool call has not returned
NoCallToolResult == [text |-> NoResult, keys |-> {}, isError |-> FALSE]

\* a wrapper that sets isError in every result
wrapToolResultAlwaysFlagged(result) ==
    [text |-> result, keys |-> {"content", "isError"}, isError |-> "error" \in JsonKeys(result)]

\* wrapToolResult(result), and the same lines of the Server generation's
\* dispatcher: the properties of the CallToolResult are keys, text is the
\* text of its content, isError the value of the property of that name
wrapToolResult(result) ==
    [text |-> result,
     keys |-> {"content"} \cup (IF "error" \in JsonKeys(result) THEN {"isError"} ELSE {}),
     isError |-> "error" \in JsonKeys(result)]

\* the handler returns result and the callback wraps it; an exception that
\* left the handler makes no CallToolResult
HandlerReturns(result) ==
    /\ toolResult' = result
    /\ callToolResult' = IF result.kind = "thrown" THEN NoCallToolResult
                         ELSE wrapToolResult(result)

\* the request of the image fetch
ImageRequest(url) ==
    [kind |-> "image", url |-> url, method |-> "GET", authorization |-> "", size |-> 0,
     path |-> ""]

\* the request of apiRequest("POST", "/api/v1/images", formData, true)
UploadRequest(size, filepath) ==
    [kind |-> "api", url |-> API_URL \o "/api/v1/images", method |-> "POST",
     authorization |-> "Bearer " \o apiKey, size |-> size, path |-> filepath]

\* args.target_path (args.filepath) sanitized, "" when it is not given
sanitizedFilepath ==
    IF args.target_path = "" THEN ""
    ELSE IF gen = "Server" THEN sanitizePathServer(args.target_path)
    ELSE sanitizePath(args.target_path)

\* a finally block that leaves the timer as it is
LeaveTimer(timer) == timer

\* clearTimeout(timeoutId)
ClearTimeout(timer) == IF timer = "pending" THEN "cleared" ELSE timer

\* the timeout of apiRequest, in milliseconds
API_TIMEOUT_MS == 30000

\* the field error of an ApiResponse that has none
NoApiError == [code |-> "", message |-> "", status |-> 0]

\* how the body of apiRequest ends: it returns an ApiResponse, of which hasData
\* and hasError say which of the fields data and error it has, or it throws
\* the value named err with the message errMessage
ApiResponse(hasData, data, hasError, error) ==
    [thrown |-> FALSE, err |-> "", errMessage |-> "", hasData |-> hasData, data |-> data,
     hasError |-> hasError, error |-> error]

\* return { error: { code, message, status } }
ApiFailure(code, message, status) ==
    ApiResponse(FALSE, "", TRUE, [code |-> code, message |-> message, status |-> status])

\* return { data: data as T }
ApiSuccess(data) == ApiResponse(TRUE, data, FALSE, NoApiError)

\* the value err leaves the block it was thrown in
Throws(err, message) ==
    [thrown |-> TRUE, err |-> err, errMessage |-> message, hasData |-> FALSE, data |-> "",
     hasError |-> FALSE, error |-> NoApiError]

\* apiRequest has not returned
NoApiResult ==
    [thrown |-> FALSE, err |-> "<none>", errMessage |-> "", hasData |-> FALSE, data |-> "",
     hasError |-> FALSE, error |-> NoApiError]

\* the ApiResponse of apiRequest when API_KEY is empty
MissingApiKey ==
    ApiFailure("MISSING_API_KEY",
               "IMG_SRC_API_KEY environment variable is not set. Please set it to your img-src.io API key.",
               401)

\* what handleUploadImage returns for the result of apiRequest; a rejected
\* call leaves the handler as an exception
HandlerResult(result) ==
    IF result.thrown THEN Thrown
    ELSE IF result.hasError THEN ErrorResult(result.error.code)
    ELSE Success

\* the handler returns before any await was started
ReturnEarly(result) ==
    /\ pc' = "done"
    /\ HandlerReturns(result)
    /\ UNCHANGED <<imgTimer, apiTimer, apiState, netCalls>>

\* apiRequest without the test of API_KEY
SendUploadUnchecked(size) ==
    /\ apiTimer' = "pending"
    /\ netCalls' = Append(netCalls, UploadRequest(size, sanitizedFilepath))
    /\ pc' = "api_fetch"
    /\ UNCHANGED <<imgTimer, apiState, toolResult, callToolResult>>

\* apiRequest up to the await of fetch: without a key it returns the error,
\* which the handler returns
SendUpload(size) ==
    IF apiKey = ""
    THEN /\ apiResult' = MissingApiKey
         /\ HandlerReturns(HandlerResult(MissingApiKey))
         /\ pc' = "done"
         /\ UNCHANGED <<imgTimer, apiTimer, response, fetchSettled, bodySettled, netCalls>>
    ELSE /\ apiTimer' = "pending"
         /\ netCalls' = Append(netCalls, UploadRequest(size, sanitizedFilepath))
         /\ pc' = "api_fetch"
         /\ UNCHANGED <<imgTimer, apiState, toolResult, callToolResult>>

\* an upload without the size check on the blob
UploadUnchecked(size) == SendUpload(size)

\* the size check on the blob, then the upload
CheckSizeAndUpload(size) ==
    IF size > MAX_IMAGE_SIZE THEN ReturnEarly(ErrorResult("IMAGE_TOO_LARGE"))
    ELSE SendUpload(size)

\* the url branch up to the await of fetch(args.url)
StartImageFetch ==
    /\ imgTimer' = "pending"
    /\ netCalls' = IF FetchSends(args.url) THEN Append(netCalls, ImageRequest(args.url))
                   ELSE netCalls
    /\ pc' = "img_fetch"
    /\ UNCHANGED <<apiTimer, apiState, toolResult, callToolResult>>

\* the url branch of the McpServer generation: the guard, then the fetch
GuardedImageFetch ==
    IF ~isAllowedUrl(args.url).allowed THEN ReturnEarly(ErrorResult("FORBIDDEN_URL"))
    ELSE StartImageFetch

\* the file_path branch of the McpServer generation up to the await of stat
StartFileUpload ==
    IF ~isAllowedImagePath(args.file_path).allowed
    THEN ReturnEarly(ErrorResult("INVALID_FILE_TYPE"))
    ELSE pc' = "stat" /\ UNCHANGED <<imgTimer, apiTimer, apiState, netCalls, toolResult, callToolResult>>

\* handleUploadImage of the Server generation, from the call to its first await
HandleUploadImageServer ==
    /\ gen = "Server"
    /\ pc = "call"
    /\ IF args.data # 0 THEN CheckSizeAndUpload(args.data)
       ELSE IF args.url # "" THEN StartImageFetch
       ELSE ReturnEarly(ErrorResult("MISSING_INPUT"))
    /\ UNCHANGED fixed
    /\ imageSize' = IF args.data # 0 THEN args.data ELSE imageSize

\* handleUploadImage of the McpServer generation, from the call to its first await
HandleUploadImageMcp ==
    /\ gen = "McpServer"
    /\ pc = "call"
    /\ IF args.file_path # "" THEN StartFileUpload
       ELSE IF args.data # 0 THEN CheckSizeAndUpload(args.data)
       ELSE IF args.url # "" THEN GuardedImageFetch
       ELSE ReturnEarly(ErrorResult("MISSING_INPUT"))
    /\ UNCHANGED fixed
    /\ imageSize' = IF args.file_path = "" /\ args.data # 0 THEN args.data ELSE imageSize

\* what a rejected await rejects with: an Error named AbortError, any other
\* Error, or a value that is no Error
Rejections == {"AbortError", "TypeError", "NotAnError"}

\* blob and file sizes around the limit
BlobSizes == {1, MAX_IMAGE_SIZE, MAX_IMAGE_SIZE + 1}

\* HTTP statuses of the API's response
Statuses == {200, 404, 502}

\* what response.json() resolves with: an object without error, { error:
\* { code, message } }, { error: { code } }, { error: { message } },
\* { error: {} }, null; "not_json" is a body that is no JSON, on which it
\* rejects with a SyntaxError
Bodies ==
    {"object", "error_with_code", "error_code_only", "error_message_only",
     "error_without_code", "null", "not_json"}

\* await stat(absolutePath) returns, and the handler runs to the await of readFile
StatReturns(outcome, size) ==
    /\ pc = "stat"
    /\ IF outcome = "ENOENT" THEN ReturnEarly(ErrorResult("FILE_NOT_FOUND"))
       ELSE IF outcome = "directory" THEN ReturnEarly(ErrorResult("NOT_A_FILE"))
       ELSE IF size > MAX_IMAGE_SIZE THEN ReturnEarly(ErrorResult("IMAGE_TOO_LARGE"))
       ELSE pc' = "readFile" /\ UNCHANGED <<imgTimer, apiTimer, apiState, netCalls, toolResult, callToolResult>>
    /\ UNCHANGED fixed
    /\ imageSize' = IF outcome = "file" THEN size ELSE imageSize

\* await readFile(absolutePath) returns the file's bytes
ReadFileReturns(size) ==
    /\ pc = "readFile"
    /\ CheckSizeAndUpload(size)
    /\ UNCHANGED fixed
    /\ imageSize' = size

\* await readFile(absolutePath) rejects
ReadFileFails ==
    /\ pc = "readFile"
    /\ ReturnEarly(Thrown)
    /\ UNCHANGED <<fixed, imageSize>>

\* the timer of the image fetch fires: controller.abort().  A fetch that has
\* sent nothing rejects at once, before the timer can fire.
ImageTimerFires ==
    /\ pc = "img_fetch"
    /\ imgTimer = "pending"
    /\ netCalls # <<>>
    /\ imgTimer' = "fired"
    /\ UNCHANGED <<fixed, imageSize, pc, apiTimer, apiState, netCalls, toolResult, callToolResult>>

\* await fetch(args.url) resolves with a response
ImageFetchResolves(ok) ==
    /\ pc = "img_fetch"
    /\ imgTimer = "pending"
    /\ netCalls # <<>>
    /\ imgTimer' = ClearTimeout(imgTimer)
    /\ IF ok THEN pc' = "img_body" /\ UNCHANGED <<toolResult, callToolResult>>
       ELSE pc' = "done" /\ HandlerReturns(ErrorResult("FETCH_FAILED"))
    /\ UNCHANGED <<fixed, imageSize, apiTimer, apiState, netCalls>>

\* await fetch(args.url) rejects; after controller.abort() with an AbortError
ImageFetchRejects(err) ==
    /\ pc = "img_fetch"
    /\ imgTimer = "fired" => err = "AbortError"
    /\ netCalls = <<>> => err = "TypeError"
    /\ imgTimer' = ClearTimeout(imgTimer)
    /\ pc' = "done"
    /\ HandlerReturns(IF err = "AbortError" THEN ErrorResult("TIMEOUT")
                      ELSE ErrorResult("FETCH_ERROR"))
    /\ UNCHANGED <<fixed, imageSize, apiTimer, apiState, netCalls>>

\* await imageResponse.blob() resolves
ImageBodyArrives(size) ==
    /\ pc = "img_body"
    /\ CheckSizeAndUpload(size)
    /\ UNCHANGED fixed
    /\ imageSize' = size

\* await imageResponse.blob() rejects
ImageBodyFails ==
    /\ pc = "img_body"
    /\ ReturnEarly(Thrown)
    /\ UNCHANGED <<fixed, imageSize>>

\* a timer that is dropped without calling controller.abort()
ApiTimerDropped ==
    /\ pc \in {"api_fetch", "api_body"}
    /\ apiTimer = "pending"
    /\ apiTimer' = "cleared"
    /\ UNCHANGED <<fixed, imageSize, pc, imgTimer, apiState, netCalls, toolResult, callToolResult>>

\* the timer of apiRequest fires: controller.abort()
ApiTimerFires ==
    /\ pc \in {"api_fetch", "api_body"}
    /\ apiTimer = "pending"
    /\ apiTimer' = "fired"
    /\ UNCHANGED <<fixed, imageSize, pc, imgTimer, apiState, netCalls, toolResult, callToolResult>>

\* err instanceof Error
IsError(err) == err # "NotAnError"

\* err.message
RejectionMessage(err) ==
    CASE err = "AbortError" -> "This operation was aborted"
      [] err = "TypeError" -> "fetch failed"
      [] err = "SyntaxError" -> "Unexpected end of JSON input"
      [] OTHER -> "undefined"

\* response.ok
ResponseOk(status) == status >= 200 /\ status <= 299

\* data.error?.code and data.error?.message of a parsed body that is not null
BodyCode(body) ==
    IF body \in {"error_with_code", "error_code_only"} THEN "QUOTA_EXCEEDED" ELSE "undefined"
BodyMessage(body) ==
    IF body \in {"error_with_code", "error_message_only"} THEN "Monthly quota exceeded"
    ELSE "undefined"

\* value ?? default
Coalesce(value, default) == IF value = "undefined" THEN default ELSE value

\* a catch around await response.json() that reports no status
ParseFailureWithoutStatus(status, err) ==
    ApiFailure("JSON_PARSE_ERROR",
               "Failed to parse API response: "
                   \o (IF IsError(err) THEN RejectionMessage(err) ELSE "Invalid JSON"),
               0)

\* the catch around await response.json()
ParseFailure(status, err) ==
    ApiFailure("JSON_PARSE_ERROR",
               "Failed to parse API response: "
                   \o (IF IsError(err) THEN RejectionMessage(err) ELSE "Invalid JSON"),
               status)

\* a try block that does not test response.ok
ParsedResultIgnoringStatus(status, body) == ApiSuccess(body)

\* the try block after the body was parsed: reading data.error of null throws
\* a TypeError
ParsedResult(status, body) ==
    IF ~ResponseOk(status)
    THEN IF body = "null"
         THEN Throws("TypeError", "Cannot read properties of null (reading 'error')")
         ELSE ApiFailure(Coalesce(BodyCode(body), "API_ERROR"),
                         Coalesce(BodyMessage(body),
                                  "API request failed with status " \o ToString(status)),
                         status)
    ELSE ApiSuccess(body)

\* a catch that handles the AbortError and throws every other value again
CatchAbortOnly(outcome) ==
    IF ~outcome.thrown THEN outcome
    ELSE IF IsError(outcome.err) /\ outcome.err = "AbortError"
    THEN ApiFailure("TIMEOUT",
                    "Request timed out after " \o ToString(API_TIMEOUT_MS \div 1000)
                        \o " seconds",
                    0)
    ELSE outcome

\* the catch of apiRequest's try block
Catch(outcome) ==
    IF ~outcome.thrown THEN outcome
    ELSE IF IsError(outcome.err) /\ outcome.err = "AbortError"
    THEN ApiFailure("TIMEOUT",
                    "Request timed out after " \o ToString(API_TIMEOUT_MS \div 1000)
                        \o " seconds",
                    0)
    ELSE ApiFailure("NETWORK_ERROR",
                    "Failed to connect to img-src.io API: "
                        \o (IF IsError(outcome.err) THEN outcome.errMessage
                            ELSE "Unknown error occurred"),
                    0)

\* an apiRequest that sends the request again when the first attempt gave a
\* NETWORK_ERROR
ApiReturnsOrRetries(outcome) ==
    IF outcome.hasError /\ outcome.error.code = "NETWORK_ERROR" /\ Len(netCalls) < 3
    THEN /\ netCalls' = Append(netCalls, netCalls[Len(netCalls)])
         /\ pc' = "api_fetch"
         /\ UNCHANGED <<fixed, imageSize, imgTimer, apiTimer, response, apiResult, toolResult, callToolResult>>
    ELSE /\ apiTimer' = ClearTimeout(apiTimer)
         /\ pc' = "done"
         /\ apiResult' = outcome
         /\ HandlerReturns(HandlerResult(outcome))
         /\ UNCHANGED <<fixed, imageSize, imgTimer, response, netCalls>>

\* apiRequest leaves its try block with outcome: the finally block clears the
\* timer, and the handler returns what it makes of the result
ApiReturns(outcome) ==
    /\ apiTimer' = ClearTimeout(apiTimer)
    /\ pc' = "done"
    /\ apiResult' = outcome
    /\ HandlerReturns(HandlerResult(outcome))
    /\ UNCHANGED <<fixed, imageSize, imgTimer, response, netCalls>>

\* await fetch(`${API_URL}${path}`) resolves with a response
ApiFetchResolves(status) ==
    /\ pc = "api_fetch"
    /\ apiTimer = "pending"
    /\ response' = status
    /\ fetchSettled' = "resolved"
    /\ pc' = "api_body"
    /\ UNCHANGED <<fixed, imageSize, imgTimer, apiTimer, bodySettled, apiResult, netCalls, toolResult, callToolResult>>

\* await fetch(`${API_URL}${path}`) rejects; after controller.abort() with an
\* AbortError
ApiFetchRejects(err) ==
    /\ pc = "api_fetch"
    /\ apiTimer = "fired" => err = "AbortError"
    /\ fetchSettled' = err
    /\ ApiReturns(Catch(Throws(err, RejectionMessage(err))))
    /\ UNCHANGED bodySettled

\* await response.json() resolves with the parsed body, or rejects with a
\* SyntaxError on a body that is no JSON
ApiBodyArrives(body) ==
    /\ pc = "api_body"
    /\ apiTimer = "pending"
    /\ bodySettled' = body
    /\ ApiReturns(IF body = "not_json" THEN ParseFailure(response, "SyntaxError")
                  ELSE Catch(ParsedResult(response, body)))
    /\ UNCHANGED fetchSettled

\* await response.json() rejects while the body is read; after
\* controller.abort() with an AbortError
ApiBodyRejects(err) ==
    /\ pc = "api_body"
    /\ apiTimer = "fired" => err = "AbortError"
    /\ bodySettled' = err
    /\ ApiReturns(ParseFailure(response, err))
    /\ UNCHANGED fetchSettled

(***************************************************************************)
(* Concurrent calls of apiRequest                                          *)
(***************************************************************************)

\* how many calls of apiRequest are in flight together
NumCalls == 2
CallIds == 1 .. NumCalls

\* the arguments of the calls: a call without body, as every GET and DELETE
\* of the handlers, the upload's multipart body, and a call with a JSON body
CallShapes ==
    {[method |-> "GET", path |-> "/api/v1/usage", body |-> "undefined", isFormData |-> FALSE],
     [method |-> "POST", path |-> "/api/v1/images", body |-> "formData", isFormData |-> TRUE],
     [method |-> "PUT", path |-> "/api/v1/settings", body |-> "object", isFormData |-> FALSE]}

\* the HTTP statuses and the bodies of the responses to concurrent calls
CallStatuses == {200, 404}
CallBodies == {"object", "error_with_code", "null", "not_json"}

\* no request: fetch was not called
NoRequest ==
    [url |-> "", method |-> "", Authorization |-> "undefined", ContentType |-> "undefined",
     body |-> "undefined"]

\* the headers apiRequest builds and the request it hands to fetch; a header
\* that is not set is "undefined"
RequestOf(cfg, a) ==
    [url |-> cfg.API_URL \o a.path,
     method |-> a.method,
     Authorization |-> "Bearer " \o cfg.API_KEY,
     ContentType |-> IF ~a.isFormData /\ a.body # "undefined" THEN "application/json"
                     ELSE "undefined",
     body |-> IF a.isFormData THEN a.body
              ELSE IF a.body # "undefined" THEN "JSON.stringify(" \o a.body \o ")"
              ELSE "undefined"]

\* a call that has not started
IdleCall(a) ==
    [args |-> a, pc |-> "idle", timer |-> "none", aborted |-> FALSE, request |-> NoRequest,
     response |-> 0, result |-> NoApiResult]

\* a pair of a timer and a controller that every call shares
SharedController(i) == 1

\* the AbortController that the timer of call i aborts and whose signal the
\* fetch of call i gets: the call's own
Controller(i) == i

\* controller.signal.aborted, as call i sees it
Aborted(i) == calls[Controller(i)].aborted

\* call i runs from its start to the await of fetch, or returns without a key
CallStarts(i) ==
    /\ calls[i].pc = "idle"
    /\ calls' = [calls EXCEPT ![i] =
                    IF config.API_KEY = ""
                    THEN [@ EXCEPT !.pc = "done", !.result = MissingApiKey]
                    ELSE [@ EXCEPT !.pc = "fetch", !.timer = "pending",
                                   !.request = RequestOf(config, calls[i].args)]]
    /\ UNCHANGED <<config, urlVars, pathVars, uploadVars, cdnVars>>

\* the timer of call i fires: controller.abort()
CallTimerFires(i) ==
    /\ calls[i].pc \in {"fetch", "body"}
    /\ calls[i].timer = "pending"
    /\ calls' = [[calls EXCEPT ![i].timer = "fired"] EXCEPT ![Controller(i)].aborted = TRUE]
    /\ UNCHANGED <<config, urlVars, pathVars, uploadVars, cdnVars>>

\* call i leaves its try block with outcome, through finally
CallReturns(i, outcome) ==
    /\ calls' = [calls EXCEPT ![i].pc = "done", ![i].timer = ClearTimeout(@),
                              ![i].result = outcome]
    /\ UNCHANGED <<config, urlVars, pathVars, uploadVars, cdnVars>>

\* await fetch of call i resolves with a response
CallFetchResolves(i, status) ==
    /\ calls[i].pc = "fetch"
    /\ ~Aborted(i)
    /\ calls' = [calls EXCEPT ![i].pc = "body", ![i].response = status]
    /\ UNCHANGED <<config, urlVars, pathVars, uploadVars, cdnVars>>

\* await fetch of call i rejects; with an AbortError when its signal is aborted
CallFetchRejects(i, err) ==
    /\ calls[i].pc = "fetch"
    /\ Aborted(i) => err = "AbortError"
    /\ CallReturns(i, Catch(Throws(err, RejectionMessage(err))))

\* await response.json() of call i resolves, or rejects with a SyntaxError
CallBodyArrives(i, body) ==
    /\ calls[i].pc = "body"
    /\ ~Aborted(i)
    /\ CallReturns(i, IF body = "not_json" THEN ParseFailure(calls[i].response, "SyntaxError")
                      ELSE Catch(ParsedResult(calls[i].response, body)))

\* await response.json() of call i rejects while the body is read
CallBodyRejects(i, err) ==
    /\ calls[i].pc = "body"
    /\ Aborted(i) => err = "AbortError"
    /\ CallReturns(i, ParseFailure(calls[i].response, err))

(***************************************************************************)
(* get_cdn_url                                                             *)
(***************************************************************************)

\* s.replace(/[^a-zA-Z0-9_-]/g, "")
KeepUsernameChars[s \in STRING] ==
    IF s = "" THEN ""
    ELSE (IF IsAlpha(Head(s)) \/ IsDigit(Head(s)) \/ Head(s) \in {"_", "-"}
          THEN Head(s) ELSE "")
         \o KeepUsernameChars[Tail(s)]

\* params.toString() of the URLSearchParams that get w and fit when given
QueryString(a) ==
    Join[(IF a.width # 0 THEN <<"w=" \o ToString(a.width)>> ELSE <<>>)
         \o (IF a.fit # "undefined" THEN <<"fit=" \o a.fit>> ELSE <<>>), "&"]

\* lastDotIndex > 0 ? sanitized.slice(0, lastDotIndex) : sanitized,
\* where lastDotIndex, counted from 0, is -1 when there is no dot
BasePath(sanitized) ==
    LET lastDot == LastIndexOf(sanitized, ".") IN
    IF lastDot - 1 > 0 THEN SubSeq(sanitized, 1, lastDot - 1)
    ELSE sanitized

NoCdnResult ==
    [kind |-> "none", code |-> "", url |-> "", username |-> "", filepath |-> "",
     format |-> ""]

\* handleGetCdnUrl(args), with the sanitizePath of its generation
handleGetCdnUrl(a) ==
    LET sanitized == IF a.generation = "Server" THEN sanitizePathServer(a.filepath)
                             ELSE sanitizePath(a.filepath)
        sanitizedUsername == KeepUsernameChars[a.username]
        extension == IF a.format = "undefined" THEN "webp" ELSE a.format
        queryString == QueryString(a)
    IN  IF sanitizedUsername = ""
        THEN [kind |-> "error", code |-> "INVALID_USERNAME", url |-> "", username |-> "",
              filepath |-> "", format |-> ""]
        ELSE [kind |-> "success", code |-> "",
              url |-> "https://img-src.io/i/" \o sanitizedUsername \o "/"
                          \o BasePath(sanitized) \o "." \o extension
                          \o (IF queryString # "" THEN "?" \o queryString ELSE ""),
              username |-> sanitizedUsername, filepath |-> sanitized,
              format |-> extension]

\* file and directory names of the filepaths
CdnSegments == {"photo", "beach.jpg", "archive.tar.gz", "v1.2", ".."}

\* filepaths of one and of two segments
CdnFilepaths == CdnSegments \cup {d \o "/" \o f : d, f \in CdnSegments}

\* arguments that GetCdnUrlArgsSchema accepts; a field that is not given is
\* "undefined", a width that is not given 0
CdnArgs ==
    [generation : {"Server", "McpServer"},
     username : {"testuser", "test user!", "!!"},
     filepath : CdnFilepaths,
     width : {0, 800},
     fit : {"undefined", "cover"},
     format : {"undefined", "webp", "avif", "jpeg", "png"}]

(***************************************************************************)
(* Specifications                                                          *)
(***************************************************************************)

UploadUrls ==
    {"", "https://example.com/cat.png", "https://123.example.com/a.png",
     "http://127.0.0.1/admin", "http://169.254.169.254/latest/meta-data/",
     "http://10.0.0.1/x.png", "HTTP://LOCALHOST:8080/a.png",
     "http://[::ffff:127.0.0.1]/secret", "http://0x7f.0.0.1/", "ftp://example.com/a.png"}

FilePaths == {"", "/home/u/photo.PNG", "/home/u/notes.txt", "/home/u/README"}

TargetPaths == {"", "photos/2024", "../../etc//passwd"}

\* the arguments of upload_image; a field that is not given is "", and data
\* is the number of bytes its base64 text decodes to, 0 when it is not given
UploadArgs ==
    [file_path : FilePaths, url : UploadUrls, data : {0} \cup BlobSizes,
     target_path : TargetPaths]

\* UploadImageArgsSchema: url parses as a URL (so does every one of UploadUrls),
\* one source is given, and the Server generation has no field file_path
SchemaAccepts(generation, a) ==
    /\ a.url # "" => newURL[a.url].ok
    /\ IF generation = "Server" THEN a.file_path = "" /\ (a.url # "" \/ a.data # 0)
       ELSE a.file_path # "" \/ a.url # "" \/ a.data # 0

NoUrlCall == urlArg = "" /\ urlPc = "idle" /\ urlParsed = Failure /\ verdict = NoVerdict
NoPathCall == pathArg = NoPath /\ pathResult = NoPath /\ pathFedBack = FALSE
NoUpload ==
    /\ gen = "McpServer" /\ apiKey = ""
    /\ args = [file_path |-> "", url |-> "", data |-> 0, target_path |-> ""]
    /\ pc = "idle" /\ imgTimer = "none" /\ apiTimer = "none" /\ response = 0
    /\ fetchSettled = "" /\ bodySettled = "" /\ apiResult = NoApiResult
    /\ netCalls = <<>> /\ toolResult = NoResult /\ callToolResult = NoCallToolResult
    /\ imageSize = 0

NoCalls ==
    /\ config = [API_URL |-> API_URL, API_KEY |-> ""]
    /\ calls = <<>>

NoCdnCall ==
    /\ cdnArgs = [generation |-> "McpServer", username |-> "", filepath |-> "", width |-> 0,
                  fit |-> "undefined", format |-> "undefined"]
    /\ cdnResult = NoCdnResult

\* a caller holds an argument for isAllowedUrl
InitUrl ==
    /\ urlArg \in UrlInputs /\ urlPc = "called" /\ urlParsed = Failure /\ verdict = NoVerdict
    /\ NoPathCall /\ NoUpload /\ NoCalls /\ NoCdnCall

\* a caller holds an argument for sanitizePath
InitPath ==
    /\ pathArg \in PathInputs /\ pathResult = NoPath /\ pathFedBack = FALSE
    /\ NoUrlCall /\ NoUpload /\ NoCalls /\ NoCdnCall

\* a client has called upload_image on a server of either generation
Init ==
    /\ gen \in {"Server", "McpServer"}
    /\ apiKey \in {"", "imgsrc_key"}
    /\ args \in UploadArgs
    /\ SchemaAccepts(gen, args)
    /\ pc = "call" /\ imgTimer = "none" /\ apiTimer = "none" /\ response = 0
    /\ fetchSettled = "" /\ bodySettled = "" /\ apiResult = NoApiResult
    /\ netCalls = <<>> /\ toolResult = NoResult /\ callToolResult = NoCallToolResult
    /\ imageSize = 0
    /\ NoUrlCall /\ NoPathCall /\ NoCalls /\ NoCdnCall

\* the call isAllowedUrl(urlArg) returns
CallIsAllowedUrl ==
    /\ urlPc = "called"
    /\ urlPc' = "returned"
    /\ urlParsed' = newURL[urlArg]
    /\ verdict' = isAllowedUrl(urlArg)
    /\ UNCHANGED <<urlArg, pathVars, uploadVars, callVars, cdnVars>>

\* the call sanitizePath(pathArg) returns
CallSanitizePath ==
    /\ pathArg # NoPath
    /\ pathResult = NoPath
    /\ pathResult' = sanitizePath(pathArg)
    /\ UNCHANGED <<pathArg, pathFedBack, urlVars, uploadVars, callVars, cdnVars>>

\* the caller passes the result to sanitizePath again, and that call returns
SanitizeAgain ==
    /\ pathResult # NoPath
    /\ ~pathFedBack
    /\ pathArg' = pathResult
    /\ pathResult' = sanitizePath(pathResult)
    /\ pathFedBack' = TRUE
    /\ UNCHANGED <<urlVars, uploadVars, callVars, cdnVars>>

NextUrl == CallIsAllowedUrl

NextPath == CallSanitizePath \/ SanitizeAgain

Next ==
    \/ HandleUploadImageServer
    \/ HandleUploadImageMcp
    \/ \E outcome \in {"ENOENT", "directory", "file"}, size \in BlobSizes :
          StatReturns(outcome, size)
    \/ \E size \in BlobSizes : ReadFileReturns(size)
    \/ ReadFileFails
    \/ ImageTimerFires
    \/ \E ok \in BOOLEAN : ImageFetchResolves(ok)
    \/ \E err \in Rejections : ImageFetchRejects(err)
    \/ \E size \in BlobSizes : ImageBodyArrives(size)
    \/ ImageBodyFails
    \/ ApiTimerFires
    \/ \E status \in Statuses : ApiFetchResolves(status)
    \/ \E err \in Rejections : ApiFetchRejects(err)
    \/ \E body \in Bodies : ApiBodyArrives(body)
    \/ \E err \in Rejections : ApiBodyRejects(err)

\* the process has read its configuration, and NumCalls calls of apiRequest
\* are about to start
InitCalls ==
    /\ config \in [API_URL : {API_URL}, API_KEY : {"", "imgsrc_key"}]
    /\ calls \in [CallIds -> {IdleCall(a) : a \in CallShapes}]
    /\ NoUrlCall /\ NoPathCall /\ NoUpload /\ NoCdnCall

NextCalls ==
    \E i \in CallIds :
        \/ CallStarts(i)
        \/ CallTimerFires(i)
        \/ \E status \in CallStatuses : CallFetchResolves(i, status)
        \/ \E err \in Rejections : CallFetchRejects(i, err)
        \/ \E body \in CallBodies : CallBodyArrives(i, body)
        \/ \E err \in Rejections : CallBodyRejects(i, err)

SpecCalls == InitCalls /\ [][NextCalls]_vars

\* a client has called get_cdn_url
InitCdn ==
    /\ cdnArgs \in CdnArgs
    /\ cdnResult = NoCdnResult
    /\ NoUrlCall /\ NoPathCall /\ NoUpload /\ NoCalls

\* the call handleGetCdnUrl(cdnArgs) returns
CallGetCdnUrl ==
    /\ cdnArgs.username # ""
    /\ cdnResult = NoCdnResult
    /\ cdnResult' = handleGetCdnUrl(cdnArgs)
    /\ UNCHANGED <<cdnArgs, urlVars, pathVars, uploadVars, callVars>>

NextCdn == CallGetCdnUrl

SpecCdn == InitCdn /\ [][NextCdn]_vars

SpecUrl == InitUrl /\ [][NextUrl]_vars

SpecPath == InitPath /\ [][NextPath]_vars

Spec == Init /\ [][Next]_vars

\* the awaited fetch or response.json() rejects because its signal was aborted
AbortRejects ==
    /\ apiTimer = "fired"
    /\ ApiFetchRejects("AbortError") \/ ApiBodyRejects("AbortError")

\* the event loop runs a timer that is due, and an aborted signal rejects the
\* operation that was given it
SpecLive == Init /\ [][Next]_vars /\ WF_vars(ApiTimerFires) /\ WF_vars(AbortRejects)

(***************************************************************************)
(* Properties of isAllowedUrl (SpecUrl)                                    *)
(***************************************************************************)

\* the call has returned, its argument parsed as a URL
ReturnedUrl == urlPc = "returned" /\ urlParsed.ok

\* the call has returned, its argument parsed as an http or https URL
ReturnedHttpUrl == ReturnedUrl /\ urlParsed.protocol \in {"http:", "https:"}

\* the hostname of the URL, lower-cased
Hostname == toLowerCase[urlParsed.hostname]

\* a dotted-decimal literal a.b.c.d
DottedDecimal(h) ==
    LET p == SplitOn[h, "."] IN
    Len(p) = 4 /\ \A i \in 1..4 : p[i] # "" /\ Len(p[i]) <= 3 /\ AllDigits(p[i])

FirstOctet(h) == Number(SplitOn[h, "."][1])
SecondOctet(h) == Number(SplitOn[h, "."][2])

\* 10.0.0.0/8, 172.16.0.0/12, 192.168.0.0/16 and 169.254.0.0/16
InPrivateOrLinkLocal(a, b) ==
    \/ a = 10
    \/ a = 172 /\ b \in 16..31
    \/ a = 192 /\ b = 168
    \/ a = 169 /\ b = 254

\* the exact-match blocklists
BlockedNames ==
    {"localhost", "127.0.0.1", "0.0.0.0", "::1", "[::1]", "169.254.169.254",
     "metadata.google.internal", "metadata.goog"}

\* an alternate numeric IP encoding: only digits, or beginning with 0x, or a
\* first dot-segment that is 0 followed by more digits
AltNumeric(h) ==
    \/ h # "" /\ AllDigits(h)
    \/ Len(h) >= 2 /\ toLowerCase[SubSeq(h, 1, 2)] = "0x"
    \/ LET p == SplitOn[h, "."] IN
       Len(p) >= 2 /\ Len(p[1]) >= 2 /\ Head(p[1]) = "0" /\ AllDigits(p[1])

\* C1: an http/https URL whose hostname is a dotted-decimal literal in
\* 10.0.0.0/8, 172.16.0.0/12, 192.168.0.0/16 or 169.254.0.0/16 is not allowed;
\* a dotted-decimal literal outside these ranges and in no blocklist is allowed.
C1_PrivateRangesRejected ==
    (ReturnedHttpUrl /\ DottedDecimal(Hostname)) =>
        LET h == Hostname
            inRange == InPrivateOrLinkLocal(FirstOctet(h), SecondOctet(h))
        IN  /\ inRange => ~verdict.allowed
            /\ (~inRange /\ h \notin BlockedNames) => verdict.allowed

\* an address at the end of 172.16.0.0/12 has been refused as private
C1_Witness ==
    /\ urlPc = "returned"
    /\ urlArg = "https://172.31.1.1/"
    /\ verdict = [allowed |-> FALSE, reason |-> "Private network URLs are not allowed"]

\* C2: an http/https URL whose lower-cased hostname is in the localhost or the
\* metadata blocklist is not allowed, whatever its letter case, port, path and
\* query.
C2_BlocklistsRejected ==
    (ReturnedHttpUrl /\ Hostname \in BlockedNames) =>
        ~verdict.allowed

\* a metadata host in mixed case, with a port, a path and a query, has been refused
C2_Witness ==
    /\ urlPc = "returned"
    /\ urlArg = "HTTP://Metadata.Google.Internal:8080/latest/meta-data/?x=1#y"
    /\ verdict = [allowed |-> FALSE, reason |-> "Cloud metadata endpoints are not allowed"]

\* C3: a URL whose hostname contains a colon (an IPv6 literal, the
\* IPv4-mapped forms included) is not allowed.
C3_ColonHostnamesRejected ==
    (ReturnedUrl /\ Includes(urlParsed.hostname, ":")) =>
        ~verdict.allowed

\* C4: a hostname that is an alternate numeric IP encoding (only digits, or
\* beginning with 0x/0X, or a first dot-segment that is 0 followed by digits)
\* is not allowed.
C4_AltNumericRejected ==
    (ReturnedHttpUrl /\ AltNumeric(Hostname)) =>
        ~verdict.allowed

\* C6: isAllowedUrl returns a verdict for every string; a string that is no
\* URL gets allowed = false with the reason "Invalid URL format", and a URL
\* whose scheme is neither http nor https gets allowed = false.
C6_NeverThrows ==
    urlPc = "returned" =>
        /\ verdict.allowed \in BOOLEAN
        /\ ~urlParsed.ok =>
              verdict = [allowed |-> FALSE, reason |-> "Invalid URL format"]
        /\ (urlParsed.ok /\ urlParsed.protocol \notin {"http:", "https:"}) =>
              ~verdict.allowed

\* C6 as stated: the reason of a string that is no URL is "invalid URL format"
C6_AsStated ==
    urlPc = "returned" =>
        /\ verdict.allowed \in BOOLEAN
        /\ ~urlParsed.ok =>
              verdict = [allowed |-> FALSE, reason |-> "invalid URL format"]
        /\ (urlParsed.ok /\ urlParsed.protocol \notin {"http:", "https:"}) =>
              ~verdict.allowed

\* a string without a scheme has been refused as no URL
C6_Witness ==
    /\ urlPc = "returned"
    /\ urlArg = "://missing-protocol"
    /\ verdict = [allowed |-> FALSE, reason |-> "Invalid URL format"]

\* C7: an http/https URL is refused only if its hostname is in a blocklist,
\* contains a colon, is an alternate numeric encoding or is a dotted-decimal
\* literal in a private or link-local range; every other hostname, an ordinary
\* domain name with leading digits included, is allowed.
C7_OrdinaryDomainsAllowed ==
    (ReturnedHttpUrl /\ ~verdict.allowed) =>
        LET h == Hostname IN
        \/ h \in BlockedNames
        \/ Includes(h, ":")
        \/ AltNumeric(h)
        \/ DottedDecimal(h) /\ InPrivateOrLinkLocal(FirstOctet(h), SecondOctet(h))

\* a domain name that begins with digits has been allowed
C7_Witness ==
    /\ urlPc = "returned"
    /\ urlArg = "https://123.example.com/latest/meta-data/?x=1#y"
    /\ verdict.allowed

(***************************************************************************)
(* Properties of sanitizePath (SpecPath)                                   *)
(***************************************************************************)

\* the segments of a result: what lies between its "/"
ResultSegments(result) == SplitOn[result, "/"]

\* C8: the result of sanitizePath has no backslash, and is empty or consists of
\* segments separated by single "/", none of them empty (so no leading, trailing
\* or doubled separator), "." or "..".
C8_ResultShape ==
    pathResult # NoPath =>
        /\ ~Includes(pathResult, "\\")
        /\ \/ pathResult = ""
           \/ \A i \in 1..Len(ResultSegments(pathResult)) :
                 ResultSegments(pathResult)[i] \notin {"", ".", ".."}

\* a path with a ".." segment before a backslash has been sanitized
C8_Witness ==
    /\ ~pathFedBack
    /\ pathArg = "..\\a"
    /\ pathResult = "a"

\* C9: sanitizing the result of sanitizePath again gives the same result.
C9_Idempotent == pathFedBack => pathResult = pathArg

\* x percent-decoded once, x itself when it cannot be decoded
DecodedOnce(x) == IF decodeURIComponent[x].ok THEN decodeURIComponent[x].value ELSE x

IsSeparator(c) == c = "/" \/ c = "\\"

\* where the maximal runs of characters other than separators start in d
SegmentStarts(d) ==
    {i \in 1..Len(d) : ~IsSeparator(CharAt(d, i)) /\ (i = 1 \/ IsSeparator(CharAt(d, i - 1)))}

\* the maximal run of characters other than separators that starts at i
SegmentAt(d, i) ==
    SubSeq(d, i, CHOOSE j \in i..Len(d) :
                    /\ \A k \in i..j : ~IsSeparator(CharAt(d, k))
                    /\ j = Len(d) \/ IsSeparator(CharAt(d, j + 1)))

\* the starts of the segments that are neither "." nor ".."
Surviving(d) == {i \in SegmentStarts(d) : SegmentAt(d, i) \notin {".", ".."}}

\* the segments of d that start in S, in their order, with "/" between them
JoinedFrom[d \in STRING, S \in SUBSET Nat] ==
    IF S = {} THEN ""
    ELSE LET first == CHOOSE m \in S : \A n \in S : m <= n IN
         SegmentAt(d, first)
         \o (IF S = {first} THEN "" ELSE "/" \o JoinedFrom[d, S \ {first}])

\* C10: sanitizePath(x) is x percent-decoded once, split on the runs of "/" and
\* "\", without the segments "", "." and "..", the others verbatim and in
\* their order, joined with "/".
C10_DecodeSplitDropJoin ==
    pathResult # NoPath =>
        pathResult = JoinedFrom[DecodedOnce(pathArg), Surviving(DecodedOnce(pathArg))]

\* a percent-encoded "../" has been removed like the literal one
C10_Witness ==
    /\ ~pathFedBack
    /\ pathArg = "%2e%2e%2f"
    /\ pathResult = ""

\* C11: when decodeURIComponent throws on its argument, sanitizePath goes on
\* with the argument as it is: it returns the argument's segments, without
\* "", "." and "..", joined with "/".
C11_UndecodableKept ==
    (pathResult # NoPath /\ ~decodeURIComponent[pathArg].ok) =>
        pathResult = JoinedFrom[pathArg, Surviving(pathArg)]

\* a path with a malformed escape and a ".." segment has been sanitized
C11_Witness ==
    /\ ~pathFedBack
    /\ pathArg = "%/.."
    /\ pathResult = "%"

(***************************************************************************)
(* Properties of upload_image (Spec)                                       *)
(***************************************************************************)

(***************************************************************************)
(* apiRequest                                                              *)
(***************************************************************************)

\* the requests that apiRequest's fetch has put on the network
ApiCalls == SelectSeq(netCalls, LAMBDA call : call.kind = "api")

\* apiRequest has returned
ApiReturned == apiResult # NoApiResult

\* C12: without an API key apiRequest returns the error MISSING_API_KEY with
\* status 401, its fetch is never called and its timer is never started.
C12_MissingKeyNoRequest ==
    apiKey = "" =>
        /\ ApiCalls = <<>>
        /\ apiTimer = "none"
        /\ ApiReturned =>
              /\ apiResult.hasError /\ ~apiResult.hasData
              /\ apiResult.error.code = "MISSING_API_KEY"
              /\ apiResult.error.status = 401

C12_Witness ==
    /\ apiKey = ""
    /\ pc = "done"
    /\ apiResult = MissingApiKey
    /\ toolResult = ErrorResult("MISSING_API_KEY")

\* the handler takes its image from args.url
UrlSource ==
    /\ args.url # ""
    /\ args.data = 0
    /\ gen = "McpServer" => args.file_path = ""

\* C5: in both generations, upload_image with a url source that isAllowedUrl
\* rejects puts no request on the network, neither the image fetch nor the
\* upload, and returns the error FORBIDDEN_URL.
C5_RejectedUrlNeverFetched ==
    (pc # "call" /\ UrlSource /\ ~isAllowedUrl(args.url).allowed) =>
        /\ netCalls = <<>>
        /\ pc = "done" => toolResult = ErrorResult("FORBIDDEN_URL")

\* C13: when the timer of apiRequest fires before the call has returned,
\* whether the response or only its body is outstanding, the call returns the
\* error TIMEOUT with status 0.
C13_FiredTimerGivesTimeout ==
    (ApiReturned /\ apiTimer = "fired") =>
        /\ apiResult.hasError
        /\ apiResult.error.code = "TIMEOUT"
        /\ apiResult.error.status = 0

\* C14: whenever apiRequest returns after it started its timer, through the
\* success, the HTTP error, the parse error, the network error or the timeout
\* path, the timer is no longer pending.
C14_NoTimerPendingAfterReturn ==
    ApiReturned => apiTimer \in {"none", "cleared", "fired"}

C14_Witness ==
    /\ ApiReturned
    /\ apiTimer = "cleared"
    /\ apiResult.hasError
    /\ apiResult.error.code = "NETWORK_ERROR"

\* apiRequest's fetch has resolved with a response
ResponseReceived == fetchSettled = "resolved"

\* C15: an error of apiRequest has status 0 only when no response was
\* received; when one was received, whatever its body (the JSON null of a
\* non-success response included), the error has the status of that response.
C15_ErrorCarriesReceivedStatus ==
    (ApiReturned /\ apiResult.hasError) =>
        /\ apiResult.error.status = 0 => ~ResponseReceived
        /\ ResponseReceived => apiResult.error.status = response

\* response.json() has resolved with a parsed body
BodyParsed == bodySettled \in Bodies \ {"not_json"}

\* C16: when fetch resolves, the body parses and the status is no success
\* status, apiRequest returns an error with the status of the response, with
\* the code of the body's error if it has one and API_ERROR otherwise, and with
\* the message of the body's error if it has one and the default message
\* naming the status otherwise.
C16_HttpErrorFromBody ==
    (ApiReturned /\ ResponseReceived /\ BodyParsed /\ ~ResponseOk(response)) =>
        /\ apiResult.hasError
        /\ apiResult.error.code = Coalesce(BodyCode(bodySettled), "API_ERROR")
        /\ apiResult.error.message =
              Coalesce(BodyMessage(bodySettled),
                       "API request failed with status " \o ToString(response))
        /\ apiResult.error.status = response

\* C17: when fetch resolves with a response and response.json() rejects, as
\* it does on a body that is no JSON, apiRequest returns the error
\* JSON_PARSE_ERROR with the status of the response, a success status or not.
C17_ParseErrorCarriesStatus ==
    (ApiReturned /\ ResponseReceived /\ ~BodyParsed) =>
        /\ apiResult.hasError /\ ~apiResult.hasData
        /\ apiResult.error.code = "JSON_PARSE_ERROR"
        /\ apiResult.error.status = response

C17_Witness ==
    /\ ApiReturned
    /\ response = 200
    /\ bodySettled = "not_json"
    /\ apiResult.error.code = "JSON_PARSE_ERROR"
    /\ apiResult.error.status = 200

\* apiRequest's fetch has rejected
TransportFailed == fetchSettled \in Rejections

\* C18: when fetch rejects, with an abort or any other failure, and the timer
\* of the call has not fired, apiRequest returns the error NETWORK_ERROR with
\* status 0, whose message ends with the message of the rejection.
C18_TransportFailureIsNetworkError ==
    (ApiReturned /\ TransportFailed /\ apiTimer # "fired") =>
        /\ apiResult.hasError
        /\ apiResult.error.code = "NETWORK_ERROR"
        /\ apiResult.error.status = 0
        /\ IsError(fetchSettled) =>
              apiResult.error.message =
                  "Failed to connect to img-src.io API: " \o RejectionMessage(fetchSettled)

\* C19: whatever fetch and response.json() do (reject with an Error or with
\* another value, abort, give a body that is no JSON, give any parsed body
\* with any status), apiRequest returns an ApiResponse: no value thrown
\* inside it leaves it.
C19_NothingEscapes ==
    ApiReturned =>
        /\ ~apiResult.thrown
        /\ apiResult.hasData \/ apiResult.hasError
        /\ toolResult.kind \in {"success", "error"}

C19_Witness ==
    /\ ApiReturned
    /\ bodySettled = "null"
    /\ response = 502
    /\ ~apiResult.thrown
    /\ apiResult.error.code = "NETWORK_ERROR"
    /\ toolResult = ErrorResult("NETWORK_ERROR")

\* C20: what apiRequest returns has exactly one of the fields data and error;
\* it has data, the parsed body, exactly when fetch resolved with a response
\* of a success status and response.json() resolved.
C20_DataXorError ==
    ApiReturned =>
        /\ apiResult.hasData # apiResult.hasError
        /\ apiResult.hasData <=> (ResponseReceived /\ ResponseOk(response) /\ BodyParsed)
        /\ apiResult.hasData => apiResult.data = bodySettled

C20_Witness ==
    /\ ApiReturned
    /\ response = 200
    /\ bodySettled = "object"
    /\ apiResult = ApiSuccess("object")
    /\ toolResult = Success

\* the state of the one call of apiRequest: Idle until fetch is called, Sent
\* while fetch or response.json() is awaited, then the state its result names
CallState ==
    IF ~ApiReturned THEN (IF pc \in {"api_fetch", "api_body"} THEN "Sent" ELSE "Idle")
    ELSE IF apiResult.hasData THEN "Completed"
    ELSE IF apiResult.error.code = "TIMEOUT" THEN "TimedOut"
    ELSE IF apiResult.error.code = "NETWORK_ERROR" THEN "NetworkFailed"
    ELSE IF apiResult.error.code = "JSON_PARSE_ERROR" THEN "ParseFailed"
    ELSE IF apiResult.error.code = "MISSING_API_KEY" THEN "Refused"
    ELSE "Completed"

TerminalStates == {"Completed", "TimedOut", "NetworkFailed", "ParseFailed", "Refused"}

\* C21: a call of apiRequest calls fetch at most once; it goes from Idle to
\* Sent when it calls fetch and from Sent to one terminal state when it
\* returns, a call that was Sent to one of Completed, TimedOut, NetworkFailed
\* and ParseFailed; it never goes back, and after it returned nothing of the
\* call changes.
C21_OneAttemptThenTerminal ==
    /\ [](Len(ApiCalls) <= 1)
    /\ [][/\ CallState = "Idle" => CallState' \in {"Idle", "Sent", "Refused"}
          /\ CallState = "Sent" => CallState' \in {"Sent"} \cup (TerminalStates \ {"Refused"})
          /\ CallState \in TerminalStates =>
                /\ CallState' = CallState
                /\ UNCHANGED <<apiResult, apiTimer, response, fetchSettled, bodySettled,
                               netCalls>>
          /\ ApiCalls' # ApiCalls => (CallState = "Idle" /\ CallState' = "Sent")]_vars

C21_Witness ==
    /\ Len(ApiCalls) = 1
    /\ fetchSettled = "TypeError"
    /\ CallState = "NetworkFailed"
    /\ pc = "done"

\* the closed set of error codes
ErrorCodes ==
    {"MISSING_API_KEY", "FORBIDDEN_URL", "TIMEOUT", "NETWORK_ERROR", "JSON_PARSE_ERROR",
     "API_ERROR"}

\* C22: the code of every error that apiRequest returns is one of
\* MISSING_API_KEY, FORBIDDEN_URL, TIMEOUT, NETWORK_ERROR, JSON_PARSE_ERROR and
\* API_ERROR, whatever the body of the response holds.
C22_ClosedErrorCodes ==
    (ApiReturned /\ apiResult.hasError) => apiResult.error.code \in ErrorCodes

(***************************************************************************)
(* Concurrent calls                                                        *)
(***************************************************************************)

\* C23: with several calls of apiRequest in flight, the timer of a call that
\* fires changes nothing of another call (its timer, its abort signal, its
\* result), a call is aborted only after its own timer fired, every step is a
\* step of one call, and no step changes API_URL or API_KEY.
C23_CancellationIsLocal ==
    /\ [](\A i \in DOMAIN calls : calls[i].aborted => calls[i].timer = "fired")
    /\ [][/\ config' = config
          /\ \A i \in DOMAIN calls :
                (calls[i].timer = "pending" /\ calls'[i].timer = "fired") =>
                    \A j \in DOMAIN calls \ {i} : calls'[j] = calls[j]
          /\ \A i, j \in DOMAIN calls :
                (calls'[i] # calls[i] /\ calls'[j] # calls[j]) => i = j]_vars

C23_Witness ==
    /\ calls # <<>>
    /\ calls[1].pc = "done" /\ calls[1].timer = "fired"
    /\ calls[1].result.error.code = "TIMEOUT"
    /\ calls[2].pc = "done" /\ calls[2].timer = "cleared"
    /\ calls[2].result = ApiSuccess("object")

(***************************************************************************)
(* Tool results                                                            *)
(***************************************************************************)

\* C24: the CallToolResult of a tool call has the property isError, with the
\* value true, exactly when the JSON text the handler returned has the key
\* error; the result of a success has no property isError, and its content
\* is the handler's text.
C24_IsErrorIffErrorEntry ==
    (pc = "done" /\ toolResult.kind # "thrown") =>
        /\ callToolResult.text = toolResult
        /\ "content" \in callToolResult.keys
        /\ ("isError" \in callToolResult.keys /\ callToolResult.isError)
              <=> "error" \in JsonKeys(toolResult)
        /\ toolResult.kind = "success" => "isError" \notin callToolResult.keys

C24_Witness ==
    /\ pc = "done"
    /\ toolResult = Success
    /\ callToolResult.keys = {"content"}

(***************************************************************************)
(* The size limit                                                          *)
(***************************************************************************)

\* C25: upload_image hands no image of more than 5 * 1024 * 1024 bytes to
\* apiRequest: whether the image comes from file_path, data or url, an
\* image over the limit gives the error IMAGE_TOO_LARGE without a call of
\* apiRequest, and an image of exactly the limit is not refused: unless
\* reading the file throws, it is handed to apiRequest.
C25_OversizedNeverUploaded ==
    /\ \A n \in 1 .. Len(ApiCalls) : ApiCalls[n].size <= 5 * 1024 * 1024
    /\ imageSize > 5 * 1024 * 1024 =>
          /\ ApiCalls = <<>>
          /\ ~ApiReturned
          /\ pc = "done"
          /\ toolResult = ErrorResult("IMAGE_TOO_LARGE")
    /\ imageSize = 5 * 1024 * 1024 => toolResult # ErrorResult("IMAGE_TOO_LARGE")
    /\ (imageSize = 5 * 1024 * 1024 /\ pc = "done" /\ toolResult.kind # "thrown") =>
          ApiReturned

C25_Witness ==
    /\ imageSize = 5 * 1024 * 1024
    /\ Len(ApiCalls) = 1
    /\ ApiCalls[1].size = 5 * 1024 * 1024
    /\ pc = "done"
    /\ toolResult = Success

(***************************************************************************)
(* Request headers                                                         *)
(***************************************************************************)

\* the calls that have handed a request to fetch
SentCalls == {i \in DOMAIN calls : calls[i].request # NoRequest}

\* C26: every request that apiRequest hands to fetch has the header
\* Authorization with the bearer credential, and has the Content-Type
\* application/json unless the body of the call is multipart form data, a
\* call without any body included.
C26_HeadersOfEveryRequest ==
    \A i \in SentCalls :
        /\ calls[i].request.Authorization = "Bearer " \o config.API_KEY
        /\ ~calls[i].args.isFormData => calls[i].request.ContentType = "application/json"
        /\ calls[i].args.isFormData => calls[i].request.ContentType # "application/json"

(***************************************************************************)
(* Timeouts                                                                *)
(***************************************************************************)

\* C27: apiRequest returns the error TIMEOUT only when the timer of that
\* call has fired; a call whose timer was still pending when it returned,
\* whatever made its fetch fail, does not return TIMEOUT.
C27_TimeoutOnlyAfterTimerFired ==
    (ApiReturned /\ apiResult.hasError /\ apiResult.error.code = "TIMEOUT") =>
        apiTimer = "fired"

\* C28: every call of apiRequest that has called fetch returns, even when the
\* endpoint never answers or never finishes its body, given that a timer
\* that is due fires and that an aborted signal rejects the awaited operation.
C28_SentCallReturns ==
    (pc \in {"api_fetch", "api_body"}) ~> ApiReturned

C28_Witness ==
    /\ ApiReturned
    /\ apiTimer = "fired"
    /\ fetchSettled = "AbortError"
    /\ response = 0
    /\ apiResult.error.code = "TIMEOUT"
    /\ apiResult.error.status = 0

(***************************************************************************)
(* get_cdn_url                                                             *)
(***************************************************************************)

\* the directory part of a sanitized filepath, with its closing "/", and its
\* file name
DirectoryOf(filepath) == SubSeq(filepath, 1, LastIndexOf(filepath, "/"))
FileNameOf(filepath) == SubSeq(filepath, LastIndexOf(filepath, "/") + 1, Len(filepath))

\* a file name without its last extension; a name without a dot after its
\* first character has none
Stem(name) ==
    IF LastIndexOf(name, ".") > 1 THEN SubSeq(name, 1, LastIndexOf(name, ".") - 1)
    ELSE name

\* C29: the URL that get_cdn_url makes has, after the user name, every
\* directory segment of the sanitized filepath, then the file name without its
\* last extension (unchanged when it has none), then "." and the format,
\* webp by default.
C29_OnlyLastExtensionReplaced ==
    cdnResult.kind = "success" =>
        cdnResult.url =
            "https://img-src.io/i/" \o cdnResult.username \o "/"
                \o DirectoryOf(cdnResult.filepath) \o Stem(FileNameOf(cdnResult.filepath))
                \o "." \o (IF cdnArgs.format = "undefined" THEN "webp" ELSE cdnArgs.format)
                \o (IF QueryString(cdnArgs) # "" THEN "?" \o QueryString(cdnArgs) ELSE "")

(***************************************************************************)
(* The two generations of sanitizePath                                     *)
(***************************************************************************)

\* C30: the sanitizePath of the Server generation returns, for every
\* argument, the string that the sanitizePath of the McpServer generation
\* returns, so that its result, too, has no segment ".." and no leading
\* separator.
C30_GenerationsAgree ==
    pathResult # NoPath =>
        /\ sanitizePathServer(pathArg) = pathResult
        /\ ".." \notin {ResultSegments(sanitizePathServer(pathArg))[n] :
                          n \in 1 .. Len(ResultSegments(sanitizePathServer(pathArg)))}
====
